---- MODULE Spec2Model ----
(***************************************************************************)
(* State-machine model of backend/app/data_processing.py: the              *)
(* TrainDataProcessor stages and the process_pipeline orchestrator.        *)
(*                                                                         *)
(* Numeric conventions of the model:                                       *)
(*   - instants are whole seconds;                                         *)
(*   - coordinates are integers in units of 1e-7 degree, so that rounding  *)
(*     to 6 decimals is a real operation;                                  *)
(*   - angles and trigonometric values are fixed point with scale Scale;   *)
(*   - trip_distance_km is an integer in units of 1/Scale km;              *)
(*   - quotients of floats (speed, efficiency, fare per km) are fractions  *)
(*     [num, den] in lowest terms, den = 0 standing for NaN (0/0) and      *)
(*     the infinities (+-1/0).                                             *)
(***************************************************************************)
EXTENDS Integers, Sequences, FiniteSets, TLC

VARIABLES
    archive,          \* the zip archive at self.zip_filepath: its entries in namelist order
    pc,               \* position of process_pipeline
    ran,              \* history: the stages that have run, in order
    faults,           \* history: the I/O operations that raised
    df,               \* self.df
    original_shape,   \* self.original_shape
    cleaning_log,     \* self.cleaning_log
    removed_records,  \* self.removed_records
    outlier_records,  \* self.outlier_records
    raw_df,           \* history: the rows as read by load_data
    files,            \* the files of self.output_dir
    db,               \* the SQLite store: Vendors and Trips
    exc,              \* the exception propagating out of a stage, if any
    console,          \* the [SUCCESS] / [ERROR] lines process_pipeline printed
    api               \* the latest call of the vendor controller and its outcome

vars == <<archive, pc, ran, faults, df, original_shape, cleaning_log,
          removed_records, outlier_records, raw_df, files, db, exc, console, api>>

(* ------------------------------ bounds -------------------------------- *)

\* most rows in the tabular file of an archive that holds just that file
MaxRows == 3
\* most entries in an archive of several files
MaxEntries == 2
\* most rows in a tabular file of an archive of several files
MaxEntryRows == 1
\* most vendors the controller creates
MaxVendors == 3
\* the vendor names the controller is called with are 1..MaxNames
MaxNames == 2

(* --------------------------- missing values --------------------------- *)

\* float NaN in an integer-valued cell
NaN == -2147483647
\* a cell holding text that is not a number
BadStr == -2147483646

IsNA(x) == x = NaN

\* timestamp cells: raw text ("str" parsable, "bad" unparsable, "nan" empty),
\* a parsed UTC instant ("ts") or pandas NaT
Str(t) == [kind |-> "str", sec |-> t]
Bad == [kind |-> "bad", sec |-> 0]
Ts(t) == [kind |-> "ts", sec |-> t]
NaT == [kind |-> "NaT", sec |-> 0]

(* ------------------------------ helpers ------------------------------- *)

Abs(x) == IF x < 0 THEN -x ELSE x

\* integer quotient truncated toward zero (an odd function, as float division is)
Quot(a, b) == IF a >= 0 THEN a \div b ELSE -((-a) \div b)

RECURSIVE Gcd(_, _)
Gcd(a, b) == IF b = 0 THEN a ELSE Gcd(b, a % b)

\* the fraction n/d in lowest terms with d >= 0; n/0 is NaN (n = 0) or +-inf
Frac(n, d) ==
    IF d = 0 THEN [num |-> IF n > 0 THEN 1 ELSE IF n < 0 THEN -1 ELSE 0, den |-> 0]
    ELSE LET g == Gcd(Abs(n), Abs(d))
             s == IF d < 0 THEN -1 ELSE 1
         IN  [num |-> s * (n \div g), den |-> s * (d \div g)]

FNaN == [num |-> 0, den |-> 0]
FInf == [num |-> 1, den |-> 0]
FNegInf == [num |-> -1, den |-> 0]
FIsNA(f) == f = FNaN
\* f > n/d for a finite fraction f and d > 0
FGreater(f, n, d) == f.num * d > n * f.den

RECURSIVE SeqsUpTo(_, _)
SeqsUpTo(S, n) ==
    IF n = 0 THEN {<<>>}
    ELSE LET shorter == SeqsUpTo(S, n - 1)
         IN  shorter \cup {Append(s, x) : s \in {t \in shorter : Len(t) = n - 1}, x \in S}

RECURSIVE FilterSeq(_, _)
FilterSeq(s, keep) ==
    IF s = <<>> THEN <<>>
    ELSE LET rest == FilterSeq(Tail(s), Tail(keep))
         IN  IF Head(keep) THEN <<Head(s)>> \o rest ELSE rest

(* ------------------------------ the input ----------------------------- *)

RawRow(v, pu, dof, pcount, plat, plon, dlat, dlon, fare) ==
    [vendor_id |-> v, pickup_datetime |-> pu, dropoff_datetime |-> dof,
     passenger_count |-> pcount,
     pickup_longitude |-> plon, pickup_latitude |-> plat,
     dropoff_longitude |-> dlon, dropoff_latitude |-> dlat,
     fare_amount |-> fare]

\* the rows a tabular file may hold; coordinates in units of 1e-7 degree
RawRows ==
    LET LatA == 407500004
        LonA == -739900016
        LatB == 407600005
        LonB == -739800015
        LatC == 412500000
        LonC == -735000000
    IN  { RawRow(1, Str(0), Str(600), 1, LatA, LonA, LatB, LonB, 1000),
          \* the same trip with a passenger count below 1
          RawRow(1, Str(0), Str(600), 0, LatA, LonA, LatB, LonB, 1000),
          \* a fast trip (about 70 km in 300 s), no passenger count, a fare that is text
          RawRow(1, Str(900), Str(1200), NaN, LatA, LonA, LatC, LonC, BadStr),
          \* a trip of no duration, begun before the vendor's first trip ended
          RawRow(1, Str(300), Str(300), 1, LatA, LonA, LatB, LonB, 0),
          \* an unparsable pickup timestamp
          RawRow(2, Bad, Str(600), 0, LatA, LonA, LatB, LonB, 700),
          \* a zero coordinate
          RawRow(2, Str(300), Str(900), 2, 0, LonA, LatB, LonB, 500),
          \* dropoff before pickup, pickup and dropoff at the same place
          RawRow(2, Str(900), Str(300), 3, LatB, LonB, LatB, LonB, 500),
          \* the fast trip again, its pickup apart in the seventh decimal only
          RawRow(1, Str(900), Str(1200), NaN, LatA - 1, LonA, LatC, LonC, BadStr),
          \* a trip due north at exactly 120 km/h (637.1 km in 19113 s)
          RawRow(2, Str(0), Str(19113), 2, 400000000, LonA, 457310000, LonA, 500) }

\* the rows of the tabular files in an archive of several files
ArchiveRows == {r \in RawRows : r.pickup_datetime.kind = "str" /\ r.passenger_count = 1}

BaseColumns ==
    {"vendor_id", "pickup_datetime", "dropoff_datetime", "passenger_count",
     "pickup_longitude", "pickup_latitude", "dropoff_longitude", "dropoff_latitude"}

\* an archive entry: a .csv file with its table, or a file of another kind
CsvEntry(cols, rows) == [csv |-> TRUE, columns |-> cols, rows |-> rows]
OtherEntry == [csv |-> FALSE, columns |-> {}, rows |-> <<>>]

\* without a fare column the fare cells do not exist
DropFare(rows) == [i \in 1..Len(rows) |-> [rows[i] EXCEPT !.fare_amount = NaN]]

\* the archives holding one tabular file: with a fare column, or without one
\* (the tables without one are kept small)
SingleCsvArchives ==
    {<<CsvEntry(BaseColumns \cup {"fare_amount"}, rows)>> : rows \in SeqsUpTo(RawRows, MaxRows)}
    \cup {<<CsvEntry(BaseColumns, DropFare(rows))>> : rows \in SeqsUpTo(RawRows, MaxEntryRows)}

\* the archives of any number of entries, tabular or not
MultiArchives ==
    SeqsUpTo({OtherEntry}
             \cup {CsvEntry(BaseColumns \cup {"fare_amount"}, rows)
                      : rows \in SeqsUpTo(ArchiveRows, MaxEntryRows)},
             MaxEntries)

(* ------------------------------- logging ------------------------------ *)

\* a log entry: the message text, with the numbers formatted into it
Entry(text, n, m) == [msg |-> text, n |-> n, m |-> m]

\* log_step keeping the latest entry only
log_step_latest(log, text, n, m) == <<Entry(text, n, m)>>

\* log_step: append to self.cleaning_log (the clock prefix is left out)
log_step(log, text, n, m) == Append(log, Entry(text, n, m))

(* ------------------------------- a frame ------------------------------ *)

\* a DataFrame: None, or columns and rows; each row carries its index label
NoFrame == [isNone |-> TRUE, columns |-> {}, rows |-> <<>>]
Frame(cols, rows) == [isNone |-> FALSE, columns |-> cols, rows |-> rows]

\* the cells of a row, without its index label
Cells(r) == [r EXCEPT !.idx = 0]

EmptyList == [head |-> 0, tail |-> 0, heap |-> <<>>]
NoList == [isNone |-> TRUE, list |-> EmptyList]

NoFile == [written |-> FALSE, content |-> <<>>]
EmptyDb == [Vendors |-> <<>>, Trips |-> <<>>, seq_vendor |-> 0, seq_trip |-> 0]

(* --------------------------- process_pipeline ------------------------- *)

\* process_pipeline with normalize_data and create_derived_features exchanged
NextStage_swapped(stage) ==
    CASE stage = "LOAD" -> "CLEAN"
      [] stage = "CLEAN" -> "DERIVE"
      [] stage = "DERIVE" -> "NORMALIZE"
      [] stage = "NORMALIZE" -> "DETECT_OUTLIERS"
      [] stage = "DETECT_OUTLIERS" -> "SAVE"
      [] stage = "SAVE" -> "PERSIST_TO_STORE"
      [] stage = "PERSIST_TO_STORE" -> "SUMMARIZE"
      [] stage = "SUMMARIZE" -> "DONE"

\* the stage process_pipeline calls after the given one returns
NextStage(stage) ==
    CASE stage = "LOAD" -> "CLEAN"
      [] stage = "CLEAN" -> "NORMALIZE"
      [] stage = "NORMALIZE" -> "DERIVE"
      [] stage = "DERIVE" -> "DETECT_OUTLIERS"
      [] stage = "DETECT_OUTLIERS" -> "SAVE"
      [] stage = "SAVE" -> "PERSIST_TO_STORE"
      [] stage = "PERSIST_TO_STORE" -> "SUMMARIZE"
      [] stage = "SUMMARIZE" -> "DONE"

(* ------------------------------ load_data ----------------------------- *)

\* csv_files = [f for f in zip_ref.namelist() if f.endswith('.csv')]
csv_files(a) == FilterSeq(a, [i \in 1..Len(a) |-> a[i].csv])

\* pd.read_csv: the rows get the index labels 0, 1, ...
read_csv(e) ==
    Frame(e.columns,
          [i \in 1..Len(e.rows) |->
              [idx |-> i - 1,
               vendor_id |-> e.rows[i].vendor_id,
               pickup_datetime |-> e.rows[i].pickup_datetime,
               dropoff_datetime |-> e.rows[i].dropoff_datetime,
               passenger_count |-> e.rows[i].passenger_count,
               pickup_longitude |-> e.rows[i].pickup_longitude,
               pickup_latitude |-> e.rows[i].pickup_latitude,
               dropoff_longitude |-> e.rows[i].dropoff_longitude,
               dropoff_latitude |-> e.rows[i].dropoff_latitude,
               fare_amount |-> e.rows[i].fare_amount]])

\* load_data reading csv_files[-1]
FirstCsv_last(a) == csv_files(a)[Len(csv_files(a))]

\* the entry load_data reads
FirstCsv(a) == csv_files(a)[1]

load_data ==
    /\ pc = "LOAD"
    /\ ran' = Append(ran, "LOAD")
    /\ \E readable \in BOOLEAN :
         LET log1 == log_step(cleaning_log, "Loading raw data from zip file...", 0, 0)
         IN  IF ~readable
             THEN /\ faults' = faults \cup {"zip"}
                  /\ cleaning_log' = log_step(log1, "Error loading data: unreadable archive", 0, 0)
                  /\ exc' = "IOError"
                  /\ pc' = "RAISED"
                  /\ UNCHANGED <<df, original_shape, raw_df>>
             ELSE IF csv_files(archive) = <<>>
             THEN /\ cleaning_log' = log_step(log1, "Error loading data: No CSV file found in zip archive", 0, 0)
                  /\ exc' = "ValueError"
                  /\ pc' = "RAISED"
                  /\ UNCHANGED <<df, original_shape, raw_df, faults>>
             ELSE LET frame == read_csv(FirstCsv(archive))
                      shape == <<Len(frame.rows), Cardinality(frame.columns)>>
                  IN  /\ df' = frame
                      /\ raw_df' = frame
                      /\ original_shape' = shape
                      /\ cleaning_log' = log_step(log1, "Loaded dataset: rows, columns", shape[1], shape[2])
                      /\ pc' = NextStage("LOAD")
                      /\ UNCHANGED <<exc, faults>>
    /\ UNCHANGED <<api, archive, removed_records, outlier_records, files, db, console>>

(* ------------------------ handle_missing_values ----------------------- *)

\* to_datetime taking an instant it is given for New York time and converting it
to_datetime_relocalized(c) ==
    CASE c.kind = "str" -> Ts(c.sec)
      [] c.kind = "ts" -> Ts(c.sec + 18000)
      [] OTHER -> NaT

\* pd.to_datetime(cell, errors='coerce', utc=True)
to_datetime(c) ==
    CASE c.kind = "str" -> Ts(c.sec)
      [] c.kind = "ts" -> c
      [] OTHER -> NaT

\* one cell of .fillna(1).astype(int).clip(lower=1)
fillna(x, v) == IF IsNA(x) THEN v ELSE x
clip_lower(x, lo) == IF x < lo THEN lo ELSE x
\* the column filled and cast, without the .clip(lower=1)
clean_passenger_count_unclipped(x) == fillna(x, 1)

clean_passenger_count(x) == clip_lower(fillna(x, 1), 1)

\* the row after the in-place column assignments of lines 98-102
parse_row(r) ==
    [r EXCEPT !.pickup_datetime = to_datetime(@),
              !.dropoff_datetime = to_datetime(@),
              !.passenger_count = clean_passenger_count(@)]

isna_ts(c) == c.kind = "NaT" \/ c.kind = "nan"

\* invalid_mask without the test of pickup_latitude
invalid_mask_no_pickup_latitude(r) ==
    \/ isna_ts(r.pickup_datetime)
    \/ isna_ts(r.dropoff_datetime)
    \/ r.pickup_longitude = 0
    \/ r.dropoff_latitude = 0
    \/ r.dropoff_longitude = 0

invalid_mask(r) ==
    \/ isna_ts(r.pickup_datetime)
    \/ isna_ts(r.dropoff_datetime)
    \/ r.pickup_latitude = 0
    \/ r.pickup_longitude = 0
    \/ r.dropoff_latitude = 0
    \/ r.dropoff_longitude = 0

\* DataFrame.drop_duplicates(): of rows equal in every column the first stays
RECURSIVE drop_duplicates_from(_, _)
drop_duplicates_from(rows, seen) ==
    IF rows = <<>> THEN <<>>
    ELSE IF Cells(Head(rows)) \in seen
         THEN drop_duplicates_from(Tail(rows), seen)
         ELSE <<Head(rows)>> \o drop_duplicates_from(Tail(rows), seen \cup {Cells(Head(rows))})

\* drop_duplicates(keep='last')
RECURSIVE drop_duplicates_keep_last(_)
drop_duplicates_keep_last(rows) ==
    IF rows = <<>> THEN <<>>
    ELSE IF \E i \in 2..Len(rows) : Cells(rows[i]) = Cells(Head(rows))
         THEN drop_duplicates_keep_last(Tail(rows))
         ELSE <<Head(rows)>> \o drop_duplicates_keep_last(Tail(rows))

drop_duplicates(rows) == drop_duplicates_from(rows, {})

\* the removed records with drop_duplicates() applied to them
removed_of_deduplicated(parsed) ==
    drop_duplicates(FilterSeq(parsed, [i \in 1..Len(parsed) |-> invalid_mask(parsed[i])]))

\* self.df[invalid_mask].copy(), taken from the frame as it is when line 114 runs
removed_of(parsed) == FilterSeq(parsed, [i \in 1..Len(parsed) |-> invalid_mask(parsed[i])])

\* the frame left unfiltered
valid_of_unfiltered(parsed) == parsed

\* self.df[~invalid_mask]
valid_of(parsed) == FilterSeq(parsed, [i \in 1..Len(parsed) |-> ~invalid_mask(parsed[i])])

handle_missing_values ==
    /\ pc = "CLEAN"
    /\ ran' = Append(ran, "CLEAN")
    /\ LET log1 == log_step(cleaning_log, "Handling missing values and invalid records...", 0, 0)
           initial_rows == Len(df.rows)
           parsed == [i \in 1..Len(df.rows) |-> parse_row(df.rows[i])]
           kept == drop_duplicates(valid_of(parsed))
           rows_removed == initial_rows - Len(kept)
       IN  /\ removed_records' = Frame(df.columns, removed_of(parsed))
           /\ df' = Frame(df.columns, kept)
           /\ cleaning_log' = log_step(log1, "Removed invalid/duplicate records", rows_removed, 0)
    /\ pc' = NextStage("CLEAN")
    /\ UNCHANGED <<api, archive, faults, original_shape, outlier_records, raw_df, files, db,
                   exc, console>>

(* ---------------------------- normalize_data -------------------------- *)

\* round(6) of a coordinate held in units of 1e-7 degree: to the nearest
\* multiple of 10, a tie going to the even sixth decimal
round6(x) ==
    IF IsNA(x) THEN x
    ELSE LET a == Abs(x)
             r == a % 10
             lo == a - r
             up == IF r > 5 \/ (r = 5 /\ (lo \div 10) % 2 = 1) THEN lo + 10 ELSE lo
         IN  IF x < 0 THEN -up ELSE up

\* pd.to_numeric(cell, errors='coerce')
to_numeric(x) == IF x = BadStr THEN NaN ELSE x

normalize_row(r, cols) ==
    [r EXCEPT !.pickup_datetime = to_datetime(@),
              !.dropoff_datetime = to_datetime(@),
              !.pickup_longitude = round6(@),
              !.pickup_latitude = round6(@),
              !.dropoff_longitude = round6(@),
              !.dropoff_latitude = round6(@),
              !.fare_amount = IF "fare_amount" \in cols THEN to_numeric(@) ELSE @]

\* the normalization followed by a dropna() on the fare column
normalize_rows_dropna(rows, cols) ==
    LET done == [i \in 1..Len(rows) |-> normalize_row(rows[i], cols)]
    IN  FilterSeq(done, [i \in 1..Len(done) |-> ~IsNA(done[i].fare_amount)])

normalize_rows(rows, cols) == [i \in 1..Len(rows) |-> normalize_row(rows[i], cols)]

normalize_data ==
    /\ pc = "NORMALIZE"
    /\ ran' = Append(ran, "NORMALIZE")
    /\ df' = Frame(df.columns, normalize_rows(df.rows, df.columns))
    /\ cleaning_log' = log_step(log_step(cleaning_log, "Normalizing and formatting data...", 0, 0),
                                "Data normalization completed", 0, 0)
    /\ pc' = NextStage("NORMALIZE")
    /\ UNCHANGED <<api, archive, faults, original_shape, removed_records, outlier_records,
                   raw_df, files, db, exc, console>>

(* ----------------------- calculate_trip_distance ---------------------- *)

\* fixed point: the integer v stands for v / Scale
Scale == 10000
EarthRadiusKm == 6371

Mul(a, b) == Quot(a * b, Scale)

\* math.radians of a coordinate in units of 1e-7 degree (pi/180 = 0.01745)
radians(x) == Quot(Quot(x, 10000) * 1745, 10000)

\* math.sin, math.cos and math.asin by their Taylor polynomials
sin(x) ==
    LET x2 == Mul(x, x)
        x3 == Mul(x2, x)
        x5 == Mul(x3, x2)
    IN  x - Quot(x3, 6) + Quot(x5, 120)

cos(x) ==
    LET x2 == Mul(x, x)
        x4 == Mul(x2, x2)
        x6 == Mul(x4, x2)
    IN  Scale - Quot(x2, 2) + Quot(x4, 24) - Quot(x6, 720)

asin(y) ==
    LET y2 == Mul(y, y)
        y3 == Mul(y2, y)
        y5 == Mul(y3, y2)
    IN  y + Quot(y3, 6) + Quot(3 * y5, 40)

\* the integer square root, by bisection
RECURSIVE isqrt_in(_, _, _)
isqrt_in(n, lo, hi) ==
    IF lo >= hi THEN lo
    ELSE LET mid == (lo + hi + 1) \div 2
         IN  IF mid * mid <= n THEN isqrt_in(n, mid, hi) ELSE isqrt_in(n, lo, mid - 1)

isqrt(n) == isqrt_in(n, 0, 2 * Scale)

\* the haversine with sin(dlon / 2) left unsquared
calculate_trip_distance_unsquared(lat1d, lon1d, lat2d, lon2d) ==
    IF IsNA(lat1d) \/ IsNA(lon1d) \/ IsNA(lat2d) \/ IsNA(lon2d) THEN NaN
    ELSE LET lat1 == radians(lat1d)
             lon1 == radians(lon1d)
             lat2 == radians(lat2d)
             lon2 == radians(lon2d)
             sdlat == sin(Quot(lat2 - lat1, 2))
             sdlon == sin(Quot(lon2 - lon1, 2))
             a == sdlat * sdlat + Mul(cos(lat1), cos(lat2)) * sdlon
             c == 2 * asin(isqrt(a))
         IN  EarthRadiusKm * c

\* the haversine distance, in units of 1/Scale km; a NaN coordinate gives NaN.
\* a is held with scale Scale^2, so that sqrt(a) has scale Scale.
calculate_trip_distance(lat1d, lon1d, lat2d, lon2d) ==
    IF IsNA(lat1d) \/ IsNA(lon1d) \/ IsNA(lat2d) \/ IsNA(lon2d) THEN NaN
    ELSE LET lat1 == radians(lat1d)
             lon1 == radians(lon1d)
             lat2 == radians(lat2d)
             lon2 == radians(lon2d)
             dlat == lat2 - lat1
             dlon == lon2 - lon1
             sdlat == sin(Quot(dlat, 2))
             sdlon == sin(Quot(dlon, 2))
             a == sdlat * sdlat + Quot(Mul(cos(lat1), cos(lat2)) * (sdlon * sdlon), Scale)
             c == 2 * asin(isqrt(a))
         IN  EarthRadiusKm * c

(* ------------------------ create_derived_features --------------------- *)

SPEED_OUTLIER_THRESHOLD == 120

\* the duration taken for its absolute value
trip_duration_sec_abs(r) ==
    IF isna_ts(r.pickup_datetime) \/ isna_ts(r.dropoff_datetime) THEN NaN
    ELSE Abs(r.dropoff_datetime.sec - r.pickup_datetime.sec)

\* (dropoff - pickup).dt.total_seconds(), then .where(duration >= 0)
trip_duration_sec(r) ==
    IF isna_ts(r.pickup_datetime) \/ isna_ts(r.dropoff_datetime) THEN NaN
    ELSE LET d == r.dropoff_datetime.sec - r.pickup_datetime.sec
         IN  IF d >= 0 THEN d ELSE NaN

trip_distance_km(r) ==
    calculate_trip_distance(r.pickup_latitude, r.pickup_longitude,
                            r.dropoff_latitude, r.dropoff_longitude)

\* the quotient of line 182 without the .where of line 183
trip_speed_kmh_unmasked(dist, dur) ==
    IF IsNA(dist) \/ IsNA(dur) THEN FNaN ELSE Frac(dist * 9, dur * 25)

\* distance / (duration / 3600), then .where(duration > 0); the distance being in
\* units of 1/Scale km, the quotient in km/h is distance * 3600 / (duration * Scale)
trip_speed_kmh(dist, dur) ==
    LET quotient == IF IsNA(dist) \/ IsNA(dur) THEN FNaN ELSE Frac(dist * 9, dur * 25)
    IN  IF ~IsNA(dur) /\ dur > 0 THEN quotient ELSE FNaN

\* the quotient of line 206 without the replacement of line 207
fare_per_km_unreplaced(fare, dist) ==
    IF IsNA(fare) \/ fare = BadStr \/ IsNA(dist) THEN FNaN ELSE Frac(fare * Scale, dist)

\* fare_amount / trip_distance_km, then the infinities replaced by pd.NA
fare_per_km(fare, dist) ==
    LET quotient == IF IsNA(fare) \/ fare = BadStr \/ IsNA(dist) THEN FNaN
                    ELSE Frac(fare * Scale, dist)
    IN  IF quotient = FInf \/ quotient = FNegInf THEN FNaN ELSE quotient

\* the quotient of line 210 without the .clip of line 211
trip_efficiency_unclipped(speed) ==
    IF FIsNA(speed) THEN FNaN ELSE Frac(speed.num, speed.den * SPEED_OUTLIER_THRESHOLD)

\* the efficiency taken against a ceiling speed of its own, 1000 km/h
trip_efficiency_other_ceiling(speed) ==
    IF FIsNA(speed) THEN FNaN
    ELSE LET e == Frac(speed.num, speed.den * 1000)
         IN  IF FGreater(e, 1, 1) THEN Frac(1, 1) ELSE e

\* trip_speed_kmh / SPEED_OUTLIER_THRESHOLD, then .clip(upper=1.0)
trip_efficiency(speed) ==
    IF FIsNA(speed) THEN FNaN
    ELSE LET e == Frac(speed.num, speed.den * SPEED_OUTLIER_THRESHOLD)
         IN  IF FGreater(e, 1, 1) THEN Frac(1, 1) ELSE e

\* an order that also puts a row before the rows of its own vendor and pickup time
sort_before_or_equal(r1, r2) ==
    \/ r1.vendor_id < r2.vendor_id
    \/ r1.vendor_id = r2.vendor_id /\ r1.pickup_datetime.sec <= r2.pickup_datetime.sec

\* the order of sort_values(['vendor_id', 'pickup_datetime'])
sort_before(r1, r2) ==
    \/ r1.vendor_id < r2.vendor_id
    \/ r1.vendor_id = r2.vendor_id /\ r1.pickup_datetime.sec < r2.pickup_datetime.sec

\* insert r behind every row that does not sort after it (a stable insertion)
RECURSIVE insert_sorted(_, _)
insert_sorted(sorted, r) ==
    IF sorted = <<>> THEN <<r>>
    ELSE IF sort_before(r, Head(sorted)) THEN <<r>> \o sorted
         ELSE <<Head(sorted)>> \o insert_sorted(Tail(sorted), r)

RECURSIVE sort_from(_, _)
sort_from(rows, sorted) ==
    IF rows = <<>> THEN sorted
    ELSE sort_from(Tail(rows), insert_sorted(sorted, Head(rows)))

sort_values(rows) == sort_from(rows, <<>>)

\* the scan remembering a dropoff only where it produced an idle time or met
\* the vendor for the first time
RECURSIVE idle_scan_keeping(_, _, _)
idle_scan_keeping(rows, last_dropoff, idle_times) ==
    IF rows = <<>> THEN idle_times
    ELSE LET row == Head(rows)
             vendor == row.vendor_id
             seen == vendor \in DOMAIN last_dropoff
             diff == IF seen THEN row.pickup_datetime.sec - last_dropoff[vendor].sec ELSE 0
             idle == IF seen /\ diff >= 0 THEN diff ELSE NaN
         IN  idle_scan_keeping(Tail(rows),
                               [v \in DOMAIN last_dropoff \cup {vendor} |->
                                   IF v = vendor /\ (~seen \/ idle # NaN)
                                   THEN row.dropoff_datetime ELSE last_dropoff[v]],
                               Append(idle_times, idle))

\* the idle-time scan of lines 187-200: last_dropoff maps the vendors seen so far
\* to the dropoff of their latest row
RECURSIVE idle_scan(_, _, _)
idle_scan(rows, last_dropoff, idle_times) ==
    IF rows = <<>> THEN idle_times
    ELSE LET row == Head(rows)
             vendor == row.vendor_id
             pickup == row.pickup_datetime
             diff == IF vendor \in DOMAIN last_dropoff
                     THEN pickup.sec - last_dropoff[vendor].sec ELSE 0
             idle == IF vendor \in DOMAIN last_dropoff /\ diff >= 0 THEN diff ELSE NaN
         IN  idle_scan(Tail(rows),
                       [v \in DOMAIN last_dropoff \cup {vendor} |->
                           IF v = vendor THEN row.dropoff_datetime ELSE last_dropoff[v]],
                       Append(idle_times, idle))

derive_row(r, cols) ==
    LET dur == trip_duration_sec(r)
        dist == trip_distance_km(r)
        speed == trip_speed_kmh(dist, dur)
    IN  [idx |-> r.idx,
         vendor_id |-> r.vendor_id,
         pickup_datetime |-> r.pickup_datetime,
         dropoff_datetime |-> r.dropoff_datetime,
         passenger_count |-> r.passenger_count,
         pickup_longitude |-> r.pickup_longitude,
         pickup_latitude |-> r.pickup_latitude,
         dropoff_longitude |-> r.dropoff_longitude,
         dropoff_latitude |-> r.dropoff_latitude,
         fare_amount |-> r.fare_amount,
         trip_duration_sec |-> dur,
         trip_distance_km |-> dist,
         trip_speed_kmh |-> speed,
         idle_time_sec |-> NaN,
         fare_per_km |-> IF "fare_amount" \in cols THEN fare_per_km(r.fare_amount, dist)
                         ELSE FNaN,
         trip_efficiency |-> trip_efficiency(speed)]

derive_rows(rows, cols) ==
    LET sorted == sort_values([i \in 1..Len(rows) |-> derive_row(rows[i], cols)])
        idle_times == idle_scan(sorted, <<>>, <<>>)
    IN  [i \in 1..Len(sorted) |-> [sorted[i] EXCEPT !.idle_time_sec = idle_times[i]]]

DerivedColumns(cols) ==
    {"trip_duration_sec", "trip_distance_km", "trip_speed_kmh", "idle_time_sec",
     "trip_efficiency"}
    \cup (IF "fare_amount" \in cols THEN {"fare_per_km"} ELSE {})

\* On a frame without rows DataFrame.apply(axis=1) gives back a frame, not a
\* column, and whether line 174 can assign it depends on the pandas release:
\* both outcomes are kept.
create_derived_features ==
    /\ pc = "DERIVE"
    /\ ran' = Append(ran, "DERIVE")
    /\ LET log1 == log_step(cleaning_log, "Creating derived features...", 0, 0)
       IN  \E assignable \in BOOLEAN :
             IF df.rows = <<>> /\ ~assignable
             THEN /\ cleaning_log' = log1
                  /\ exc' = "ValueError"
                  /\ pc' = "RAISED"
                  /\ df' = Frame(df.columns \cup {"trip_duration_sec"}, df.rows)
             ELSE /\ assignable
                  /\ df' = Frame(df.columns \cup DerivedColumns(df.columns),
                                 derive_rows(df.rows, df.columns))
                  /\ cleaning_log' = log_step(log1, "Created derived features: trip_speed_kmh, idle_time_sec, fare_per_km, trip_efficiency", 0, 0)
                  /\ pc' = NextStage("DERIVE")
                  /\ UNCHANGED exc
    /\ UNCHANGED <<api, archive, faults, original_shape, removed_records, outlier_records,
                   raw_df, files, db, console>>

(* ------------------------------ LinkedList ---------------------------- *)

\* Nodes live in a heap; a node is referred to by its place in it, 0 is None.

\* add without the assignment to self.tail.next
add_unlinked(list, trip) ==
    LET new_node == Len(list.heap) + 1
        heap1 == Append(list.heap, [trip |-> trip, next |-> 0])
    IN  IF list.head = 0
        THEN [head |-> new_node, tail |-> new_node, heap |-> heap1]
        ELSE [head |-> list.head, tail |-> new_node, heap |-> heap1]

\* LinkedList.add
add(list, trip) ==
    LET new_node == Len(list.heap) + 1
        heap1 == Append(list.heap, [trip |-> trip, next |-> 0])
    IN  IF list.head = 0
        THEN [head |-> new_node, tail |-> new_node, heap |-> heap1]
        ELSE [head |-> list.head, tail |-> new_node,
              heap |-> [heap1 EXCEPT ![list.tail].next = new_node]]

\* LinkedList.to_list
RECURSIVE to_list_from(_, _, _)
to_list_from(list, current, result) ==
    IF current = 0 THEN result
    ELSE to_list_from(list, list.heap[current].next, Append(result, list.heap[current].trip))

to_list(list) == to_list_from(list, list.head, <<>>)

(* ---------------------------- detect_outliers ------------------------- *)

\* the test taking a speed at the threshold for an outlier too
is_outlier_from_threshold(trip) ==
    /\ ~FIsNA(trip.trip_speed_kmh)
    /\ ~FGreater(Frac(SPEED_OUTLIER_THRESHOLD, 1), trip.trip_speed_kmh.num,
                 trip.trip_speed_kmh.den)

\* speed > SPEED_OUTLIER_THRESHOLD, an absent speed counting as 0
is_outlier(trip) ==
    /\ ~FIsNA(trip.trip_speed_kmh)
    /\ FGreater(trip.trip_speed_kmh, SPEED_OUTLIER_THRESHOLD, 1)

\* the loop of lines 224-229; trip.to_dict() holds the cells, not the index label
RECURSIVE scan_outliers(_, _)
scan_outliers(rows, outliers) ==
    IF rows = <<>> THEN outliers
    ELSE scan_outliers(Tail(rows),
                       IF is_outlier(Head(rows)) THEN add(outliers, Cells(Head(rows)))
                       ELSE outliers)

\* detect_outliers taking the records it flags out of self.df
detect_outliers_dropping ==
    /\ pc = "DETECT_OUTLIERS"
    /\ ran' = Append(ran, "DETECT_OUTLIERS")
    /\ LET outliers == scan_outliers(df.rows, EmptyList)
           outlier_count == Len(to_list(outliers))
       IN  /\ outlier_records' = [isNone |-> FALSE, list |-> outliers]
           /\ df' = Frame(df.columns,
                          FilterSeq(df.rows, [i \in 1..Len(df.rows) |-> ~is_outlier(df.rows[i])]))
           /\ cleaning_log' =
                 log_step(log_step(cleaning_log, "Detecting speed outliers using linked list...", 0, 0),
                          "Detected speed outliers (> km/h)", outlier_count, SPEED_OUTLIER_THRESHOLD)
    /\ pc' = NextStage("DETECT_OUTLIERS")
    /\ UNCHANGED <<api, archive, faults, original_shape, removed_records, raw_df, files, db,
                   exc, console>>

detect_outliers ==
    /\ pc = "DETECT_OUTLIERS"
    /\ ran' = Append(ran, "DETECT_OUTLIERS")
    /\ LET outliers == scan_outliers(df.rows, EmptyList)
           outlier_count == Len(to_list(outliers))
       IN  /\ outlier_records' = [isNone |-> FALSE, list |-> outliers]
           /\ cleaning_log' =
                 log_step(log_step(cleaning_log, "Detecting speed outliers using linked list...", 0, 0),
                          "Detected speed outliers (> km/h)", outlier_count, SPEED_OUTLIER_THRESHOLD)
    /\ pc' = NextStage("DETECT_OUTLIERS")
    /\ UNCHANGED <<api, archive, faults, df, original_shape, removed_records, raw_df, files, db,
                   exc, console>>

(* --------------------------- save_cleaned_data ------------------------ *)

\* DataFrame.to_csv(path, index=False): the file holds the cells of the rows
to_csv(rows) == [written |-> TRUE, content |-> [i \in 1..Len(rows) |-> Cells(rows[i])]]

\* the writes save_transparency_logs attempts with the data at hand
WritesRemoved == ~removed_records.isNone /\ Len(removed_records.rows) > 0
WritesOutliers == ~outlier_records.isNone /\ to_list(outlier_records.list) # <<>>

\* the operations of SAVE that can raise here
SaveFaults ==
    {"none", "clean", "log"}
    \cup (IF WritesRemoved THEN {"removed"} ELSE {})
    \cup (IF WritesOutliers THEN {"outliers"} ELSE {})

\* the processing log written after the entry that reports its writing
log_file_after_entry(log) ==
    [written |-> TRUE, content |-> log_step(log, "Saved processing log to: path", 0, 0)]

\* processing_log.txt: one line for each entry self.cleaning_log holds at the write
log_file(log) == [written |-> TRUE, content |-> log]

\* save_transparency_logs when the write named by fault raises ("none": no write
\* raises), started with the log log0 and the files files0: <<files, log>>
save_transparency_logs(files0, log0, fault) ==
    LET removedDone == WritesRemoved /\ fault # "removed"
        files1 == IF removedDone
                  THEN [files0 EXCEPT !.removed = to_csv(removed_records.rows)] ELSE files0
        log1 == IF removedDone THEN log_step(log0, "Saved removed records to: path", 0, 0)
                ELSE log0
    IN  IF fault = "removed"
        THEN <<files1, log_step(log1, "Error saving transparency logs", 0, 0)>>
        ELSE
    LET outliersDone == WritesOutliers /\ fault # "outliers"
        files2 == IF outliersDone
                  THEN [files1 EXCEPT !.outliers =
                           [written |-> TRUE, content |-> to_list(outlier_records.list)]]
                  ELSE files1
        log2 == IF outliersDone THEN log_step(log1, "Saved speed outliers to: path", 0, 0)
                ELSE log1
    IN  IF fault = "outliers"
        THEN <<files2, log_step(log2, "Error saving transparency logs", 0, 0)>>
        ELSE IF fault = "log"
        THEN <<files2, log_step(log2, "Error saving transparency logs", 0, 0)>>
        ELSE <<[files2 EXCEPT !.log = log_file(log2)],
               log_step(log2, "Saved processing log to: path", 0, 0)>>

save_cleaned_data ==
    /\ pc = "SAVE"
    /\ ran' = Append(ran, "SAVE")
    /\ \E fault \in SaveFaults :
         LET log1 == log_step(cleaning_log, "Saving cleaned data and transparency logs...", 0, 0)
         IN  /\ faults' = IF fault = "none" THEN faults ELSE faults \cup {fault}
             /\ IF fault = "clean"
                THEN /\ cleaning_log' = log1
                     /\ exc' = "IOError"
                     /\ pc' = "RAISED"
                     /\ UNCHANGED files
                ELSE LET files1 == [files EXCEPT !.clean = to_csv(df.rows)]
                         log2 == log_step(log1, "Saved cleaned data to: path", 0, 0)
                         saved == save_transparency_logs(files1, log2, fault)
                     IN  /\ files' = saved[1]
                         /\ cleaning_log' = saved[2]
                         /\ pc' = NextStage("SAVE")
                         /\ UNCHANGED exc
    /\ UNCHANGED <<api, archive, df, original_shape, removed_records, outlier_records, raw_df,
                   db, console>>

(* --------------------------- insert_to_database ----------------------- *)

\* f"Vendor {vid}": the name is held as the number in it
vendor_name(vid) == vid

\* self.df['vendor_id'].unique(): the values in order of first appearance
RECURSIVE unique_from(_, _)
unique_from(rows, seen) ==
    IF rows = <<>> THEN <<>>
    ELSE IF Head(rows).vendor_id \in seen THEN unique_from(Tail(rows), seen)
         ELSE <<Head(rows).vendor_id>>
              \o unique_from(Tail(rows), seen \cup {Head(rows).vendor_id})

unique_vendor_ids(rows) == unique_from(rows, {})

\* INSERT OR IGNORE INTO Vendors (vendor_name): Vendors has no constraint on
\* vendor_name that the insert could conflict with, so the row is inserted
insert_vendor(store, name) ==
    [store EXCEPT !.Vendors = Append(@, [vendor_id |-> store.seq_vendor + 1,
                                         vendor_name |-> name]),
                  !.seq_vendor = @ + 1]

\* SELECT vendor_id FROM Vendors WHERE vendor_name = ?, fetchone()
select_vendor_id(store, name) ==
    LET hits == {i \in 1..Len(store.Vendors) : store.Vendors[i].vendor_name = name}
    IN  IF hits = {} THEN 0
        ELSE store.Vendors[CHOOSE i \in hits : \A j \in hits : i <= j].vendor_id

\* the loop of lines 296-304: <<store, vendor_id_mapping>>
RECURSIVE insert_vendors(_, _, _)
insert_vendors(vids, store, mapping) ==
    IF vids = <<>> THEN <<store, mapping>>
    ELSE LET vid == Head(vids)
             store1 == insert_vendor(store, vendor_name(vid))
             result == select_vendor_id(store1, vendor_name(vid))
         IN  insert_vendors(Tail(vids), store1,
                            [v \in DOMAIN mapping \cup {vid} |->
                                IF v = vid THEN result ELSE mapping[v]])

\* x.isoformat() if not pd.isna(x) else None
isoformat(c) == IF isna_ts(c) THEN [kind |-> "NULL", sec |-> 0] ELSE [kind |-> "iso", sec |-> c.sec]

\* the record line 332 builds for a row
trip_record(r, mapping) ==
    [vendor_id |-> IF r.vendor_id \in DOMAIN mapping THEN mapping[r.vendor_id] ELSE NaN,
     pickup_datetime |-> isoformat(r.pickup_datetime),
     dropoff_datetime |-> isoformat(r.dropoff_datetime),
     passenger_count |-> r.passenger_count,
     pickup_longitude |-> r.pickup_longitude,
     pickup_latitude |-> r.pickup_latitude,
     dropoff_longitude |-> r.dropoff_longitude,
     dropoff_latitude |-> r.dropoff_latitude,
     trip_duration_sec |-> r.trip_duration_sec]

\* the NOT NULL and CHECK constraints of the Trips table; NaN is bound as NULL
trip_constraints(t) ==
    /\ ~IsNA(t.vendor_id)
    /\ t.pickup_datetime.kind # "NULL"
    /\ t.dropoff_datetime.kind # "NULL"
    /\ ~IsNA(t.passenger_count) /\ t.passenger_count > 0
    /\ ~IsNA(t.pickup_longitude) /\ ~IsNA(t.pickup_latitude)
    /\ ~IsNA(t.dropoff_longitude) /\ ~IsNA(t.dropoff_latitude)
    /\ ~IsNA(t.trip_duration_sec) /\ t.trip_duration_sec >= 0

\* INSERT OR REPLACE INTO Trips under a uniqueness constraint on the trip's values
insert_trip_replacing(store, t) ==
    [store EXCEPT !.Trips = Append(FilterSeq(@, [i \in 1..Len(@) |-> @[i].trip # t]),
                                   [trip_id |-> store.seq_trip + 1, trip |-> t]),
                  !.seq_trip = @ + 1]

\* INSERT INTO Trips of one record, trip_id assigned by AUTOINCREMENT
insert_trip(store, t) ==
    [store EXCEPT !.Trips = Append(@, [trip_id |-> store.seq_trip + 1, trip |-> t]),
                  !.seq_trip = @ + 1]

RECURSIVE executemany(_, _)
executemany(store, records) ==
    IF records = <<>> THEN store
    ELSE executemany(insert_trip(store, Head(records)), Tail(records))

\* the inserts committed one by one: the rows inserted before the failing one stay
persisted_autocommit(store, rows) ==
    LET vendors == insert_vendors(unique_vendor_ids(rows), store, <<>>)
        trip_records == [i \in 1..Len(rows) |-> trip_record(rows[i], vendors[2])]
        bad == {i \in 1..Len(trip_records) : ~trip_constraints(trip_records[i])}
    IN  IF bad # {}
        THEN <<FALSE, executemany(vendors[1],
                                  SubSeq(trip_records, 1,
                                         (CHOOSE i \in bad : \A j \in bad : i <= j) - 1))>>
        ELSE <<TRUE, executemany(vendors[1], trip_records)>>

\* lines 293-335 on a store that can be reached: <<committed, store>>. The inserts
\* run in one transaction, committed at line 335; an exception before that
\* leaves the store as it was.
persisted(store, rows) ==
    LET vendors == insert_vendors(unique_vendor_ids(rows), store, <<>>)
        trip_records == [i \in 1..Len(rows) |-> trip_record(rows[i], vendors[2])]
    IN  IF \E i \in 1..Len(trip_records) : ~trip_constraints(trip_records[i])
        THEN <<FALSE, store>>
        ELSE <<TRUE, executemany(vendors[1], trip_records)>>

insert_to_database ==
    /\ pc = "PERSIST_TO_STORE"
    /\ ran' = Append(ran, "PERSIST_TO_STORE")
    /\ \E reachable \in BOOLEAN :
         LET log1 == log_step(cleaning_log, "Inserting cleaned data into database...", 0, 0)
             result == persisted(db, df.rows)
         IN  IF ~reachable
             THEN /\ faults' = faults \cup {"db"}
                  /\ cleaning_log' = log_step(log1, "Error inserting to database: no store", 0, 0)
                  /\ UNCHANGED db
             ELSE IF ~result[1]
             THEN /\ cleaning_log' = log_step(log1, "Error inserting to database: constraint failed", 0, 0)
                  /\ db' = result[2]
                  /\ UNCHANGED faults
             ELSE /\ db' = result[2]
                  /\ cleaning_log' = log_step(log1, "Inserted trip records into database",
                                              Len(df.rows), 0)
                  /\ UNCHANGED faults
    /\ pc' = NextStage("PERSIST_TO_STORE")
    /\ UNCHANGED <<api, archive, df, original_shape, removed_records, outlier_records, raw_df,
                   files, exc, console>>

(* ------------------------------ print_summary ------------------------- *)

\* n / d to the nearest whole number, a tie going to the even one
round_half_even(n, d) ==
    LET q == n \div d
        r == n % d
    IN  IF 2 * r > d \/ (2 * r = d /\ q % 2 = 1) THEN q + 1 ELSE q

\* f"{cleaned / original * 100:.2f}", in hundredths of a percent
retention(cleaned, original) == round_half_even(cleaned * 10000, original)

print_summary ==
    /\ pc = "SUMMARIZE"
    /\ ran' = Append(ran, "SUMMARIZE")
    /\ LET log1 == log_step(cleaning_log, "Processing Summary:", 0, 0)
           log2 == log_step(log1, "Original dataset: rows, columns",
                            original_shape[1], original_shape[2])
           log3 == log_step(log2, "Cleaned dataset: rows, columns",
                            Len(df.rows), Cardinality(df.columns))
       IN  IF original_shape[1] = 0
           THEN /\ cleaning_log' = log3
                /\ exc' = "ZeroDivisionError"
                /\ pc' = "RAISED"
           ELSE LET log4 == log_step(log3, "Data retention: %",
                                     retention(Len(df.rows), original_shape[1]), 0)
                IN  /\ cleaning_log' =
                         IF ~outlier_records.isNone
                         THEN log_step(log4, "Speed outliers detected:",
                                       Len(to_list(outlier_records.list)), 0)
                         ELSE log4
                    /\ pc' = NextStage("SUMMARIZE")
                    /\ UNCHANGED exc
    /\ UNCHANGED <<api, archive, faults, df, original_shape, removed_records, outlier_records,
                   raw_df, files, db, console>>

(* ------------------------- the state at the start --------------------- *)

\* the Dataset a run over the archive hands to insert_to_database
dataset_of(a) ==
    LET frame == read_csv(FirstCsv(a))
        parsed == [i \in 1..Len(frame.rows) |-> parse_row(frame.rows[i])]
        kept == drop_duplicates(valid_of(parsed))
    IN  derive_rows(normalize_rows(kept, frame.columns), frame.columns)

\* The store is a file that outlives the process: it is empty, or as an earlier
\* run over the same archive left it.
PriorStores(a) ==
    {EmptyDb}
    \cup (IF csv_files(a) = <<>> THEN {}
          ELSE {p[2] : p \in {persisted(EmptyDb, rows) : rows \in {dataset_of(a)}}})

\* a Vendor of database/models.py; NoVendor stands for None
Vendor(vendor_id, name) == [vendor_id |-> vendor_id, vendor_name |-> name]
NoVendor == Vendor(0, 0)

\* no call of the vendor controller has been made
NoCall == [op |-> "none", vendor_id |-> 0, vendor_name |-> 0, exc |-> "none",
           result |-> NoVendor, returned |-> 0, before |-> <<>>]

Init ==
    /\ archive \in SingleCsvArchives \cup MultiArchives
    /\ pc = "LOAD"
    /\ ran = <<>>
    /\ faults = {}
    /\ df = NoFrame
    /\ original_shape = <<0, 0>>
    /\ cleaning_log = <<>>
    /\ removed_records = NoFrame
    /\ outlier_records = NoList
    /\ raw_df = NoFrame
    /\ files = [clean |-> NoFile, removed |-> NoFile, outliers |-> NoFile, log |-> NoFile]
    /\ db \in PriorStores(archive)
    /\ exc = "none"
    /\ console = <<>>
    /\ api = NoCall

(* --------------------- process_pipeline: the two ends ------------------ *)

\* line 404, after print_summary has returned
pipeline_succeeded ==
    /\ pc = "DONE"
    /\ console' = Append(console, "[SUCCESS] Data processing pipeline completed successfully!")
    /\ pc' = "SUCCESS"
    /\ UNCHANGED <<api, archive, ran, faults, df, original_shape, cleaning_log, removed_records,
                   outlier_records, raw_df, files, db, exc>>

\* lines 406-408: the handler prints and raises the exception again
pipeline_failed ==
    /\ pc = "RAISED"
    /\ console' = Append(console, "[ERROR] Pipeline failed")
    /\ pc' = "FAILED"
    /\ UNCHANGED <<api, archive, ran, faults, df, original_shape, cleaning_log, removed_records,
                   outlier_records, raw_df, files, db, exc>>

Next ==
    \/ load_data
    \/ handle_missing_values
    \/ normalize_data
    \/ create_derived_features
    \/ detect_outliers
    \/ save_cleaned_data
    \/ insert_to_database
    \/ print_summary
    \/ pipeline_succeeded
    \/ pipeline_failed

Spec == Init /\ [][Next]_vars

(* ------------------- VendorManager, vendor_controller ------------------ *)

\* the names defined on a VendorManager object: its four methods
VendorManagerAttributes ==
    {"get_vendor_by_id", "get_all_vendors", "add_vendor", "delete_vendor"}

\* VendorManager.get_vendor_by_id: the row of that id, or None
get_vendor_by_id(store, vendor_id) ==
    LET hits == {i \in 1..Len(store.Vendors) : store.Vendors[i].vendor_id = vendor_id}
    IN  IF hits = {} THEN NoVendor
        ELSE Vendor(vendor_id, store.Vendors[CHOOSE i \in hits : TRUE].vendor_name)

\* VendorManager.add_vendor: INSERT INTO Vendors (vendor_name), committed
add_vendor(store, name) ==
    [store EXCEPT !.Vendors = Append(@, Vendor(store.seq_vendor + 1, name)),
                  !.seq_vendor = @ + 1]

\* VendorManager.delete_vendor: DELETE FROM Vendors WHERE vendor_id = ?, committed
delete_vendor_row(store, vendor_id) ==
    [store EXCEPT !.Vendors =
        FilterSeq(@, [i \in 1..Len(@) |-> @[i].vendor_id # vendor_id])]

\* UPDATE Vendors SET vendor_name = ? WHERE vendor_id = ?, committed
update_vendor_row(store, vendor_id, name) ==
    [store EXCEPT !.Vendors =
        [i \in 1..Len(@) |-> IF @[i].vendor_id = vendor_id
                             THEN Vendor(vendor_id, name) ELSE @[i]]]

\* everything but the store and the call record
pipeline_vars == <<archive, pc, ran, faults, df, original_shape, cleaning_log,
                   removed_records, outlier_records, raw_df, files, exc, console>>

\* vendor_controller.create_vendor
create_vendor(name) ==
    /\ db.seq_vendor < MaxVendors
    /\ db' = add_vendor(db, name)
    /\ api' = [op |-> "create_vendor", vendor_id |-> 0, vendor_name |-> name,
               exc |-> "none", result |-> NoVendor, returned |-> db.seq_vendor + 1,
               before |-> db.Vendors]
    /\ UNCHANGED pipeline_vars

\* vendor_controller.update_vendor: past the lookup it asks the VendorManager
\* object for get_connection, a name the object does not define
update_vendor(vendor_id, name) ==
    /\ LET call == [op |-> "update_vendor", vendor_id |-> vendor_id, vendor_name |-> name,
                    exc |-> "none", result |-> NoVendor, returned |-> 0,
                    before |-> db.Vendors]
       IN  IF get_vendor_by_id(db, vendor_id) = NoVendor
           THEN /\ api' = [call EXCEPT !.exc = "ValueError"]
                /\ UNCHANGED db
           ELSE IF "get_connection" \notin VendorManagerAttributes
           THEN /\ api' = [call EXCEPT !.exc = "AttributeError"]
                /\ UNCHANGED db
           ELSE /\ db' = update_vendor_row(db, vendor_id, name)
                /\ api' = [call EXCEPT !.result =
                               get_vendor_by_id(update_vendor_row(db, vendor_id, name),
                                                vendor_id)]
    /\ UNCHANGED pipeline_vars

\* vendor_controller.delete_vendor
delete_vendor(vendor_id) ==
    /\ db' = delete_vendor_row(db, vendor_id)
    /\ api' = [op |-> "delete_vendor", vendor_id |-> vendor_id, vendor_name |-> 0,
               exc |-> "none", result |-> NoVendor,
               returned |-> IF get_vendor_by_id(db, vendor_id) = NoVendor THEN 0 ELSE 1,
               before |-> db.Vendors]
    /\ UNCHANGED pipeline_vars

\* the controller at work on a store no pipeline run has written to
InitVendors ==
    /\ archive = <<>>
    /\ pc = "LOAD"
    /\ ran = <<>>
    /\ faults = {}
    /\ df = NoFrame
    /\ original_shape = <<0, 0>>
    /\ cleaning_log = <<>>
    /\ removed_records = NoFrame
    /\ outlier_records = NoList
    /\ raw_df = NoFrame
    /\ files = [clean |-> NoFile, removed |-> NoFile, outliers |-> NoFile, log |-> NoFile]
    /\ db = EmptyDb
    /\ exc = "none"
    /\ console = <<>>
    /\ api = NoCall

NextVendors ==
    \/ \E name \in 1..MaxNames : create_vendor(name)
    \/ \E vendor_id \in 1..(MaxVendors + 1), name \in 1..MaxNames : update_vendor(vendor_id, name)
    \/ \E vendor_id \in 1..(MaxVendors + 1) : delete_vendor(vendor_id)

SpecVendors == InitVendors /\ [][NextVendors]_vars

(* ============================== properties ============================ *)

HasRun(stage) == \E i \in 1..Len(ran) : ran[i] = stage
LastRan == IF ran = <<>> THEN "" ELSE ran[Len(ran)]
LastEntry == cleaning_log[Len(cleaning_log)]

\* the raw row that was read with the index label idx
RawAt(idx) == raw_df.rows[idx + 1]
DatasetIdx == {df.rows[i].idx : i \in 1..Len(df.rows)}
DiscardIdx == {removed_records.rows[i].idx : i \in 1..Len(removed_records.rows)}

\* stated on the raw values: a timestamp that is no parsable text, or a zero coordinate
RawInvalid(r) ==
    \/ r.pickup_datetime.kind # "str"
    \/ r.dropoff_datetime.kind # "str"
    \/ r.pickup_latitude = 0 \/ r.pickup_longitude = 0
    \/ r.dropoff_latitude = 0 \/ r.dropoff_longitude = 0

RawInvalidCount == Cardinality({i \in 1..Len(raw_df.rows) : RawInvalid(raw_df.rows[i])})

\* the state CleaningStage leaves
AfterClean == pc = "NORMALIZE"
\* the state NormalizationStage leaves
AfterNormalize == pc = "DERIVE"

\* C1: the stages run in the order LOAD, CLEAN, NORMALIZE, DERIVE, DETECT_OUTLIERS,
\* SAVE, PERSIST_TO_STORE, SUMMARIZE, each at most once and none before its
\* predecessor, and the success message is printed only once SUMMARIZE has run.
C1_StagesInOrder ==
    LET order == <<"LOAD", "CLEAN", "NORMALIZE", "DERIVE", "DETECT_OUTLIERS", "SAVE",
                   "PERSIST_TO_STORE", "SUMMARIZE">>
    IN  /\ Len(ran) <= Len(order)
        /\ \A i \in 1..Len(ran) : ran[i] = order[i]
        /\ console # <<>> /\ console[1] # "[ERROR] Pipeline failed" => ran = order

C1_Witness ==
    /\ pc = "SUCCESS"
    /\ Len(console) = 1
    /\ Len(ran) = 8
    /\ Len(df.rows) = 2

\* C2: a LOAD that fails (unreadable archive, or no .csv entry) logs the error,
\* lets the exception reach the caller, ends the run failed with the failure
\* message, and no later stage runs; of several .csv entries the first is loaded.
C2_LoadFailureIsFatal ==
    LET noCsv == \A i \in 1..Len(archive) : ~archive[i].csv
        loadFailed == "zip" \in faults \/ noCsv
    IN  /\ HasRun("LOAD") /\ loadFailed =>
              /\ ran = <<"LOAD">>
              /\ pc \in {"RAISED", "FAILED"}
              /\ exc # "none"
              /\ LastEntry.msg \in {"Error loading data: unreadable archive",
                                    "Error loading data: No CSV file found in zip archive"}
              /\ df.isNone
              /\ pc = "FAILED" => console = <<"[ERROR] Pipeline failed">>
        /\ HasRun("LOAD") /\ ~loadFailed =>
              \E i \in 1..Len(archive) :
                 /\ archive[i].csv
                 /\ \A j \in 1..(i - 1) : ~archive[j].csv
                 /\ Len(raw_df.rows) = Len(archive[i].rows)
                 /\ \A k \in 1..Len(raw_df.rows) :
                       archive[i].rows[k] =
                          [f \in DOMAIN archive[i].rows[k] |-> raw_df.rows[k][f]]

C2_Witness ==
    /\ pc = "FAILED"
    /\ ran = <<"LOAD">>
    /\ Len(archive) = 2
    /\ \A i \in 1..Len(archive) : ~archive[i].csv
    /\ console = <<"[ERROR] Pipeline failed">>

\* C3: an exception raised during SAVE (the cleaned dataset file or a
\* transparency artifact) or PERSIST is caught and logged, and the run goes on
\* to SUMMARIZE instead of failing.
C3_SaveAndPersistFaultsCaught ==
    /\ LastRan = "SAVE" /\ faults \cap {"clean", "removed", "outliers", "log"} # {} =>
          pc = "PERSIST_TO_STORE" /\ exc = "none"
    /\ LastRan = "PERSIST_TO_STORE" /\ "db" \in faults =>
          pc = "SUMMARIZE" /\ exc = "none"

\* C4: the writes of the removed-records file, the outliers file and the
\* processing log are independent: each is written unless its own write raised.
C4_ArtifactWritesIndependent ==
    HasRun("SAVE") /\ "clean" \notin faults =>
        /\ Len(removed_records.rows) > 0 /\ "removed" \notin faults => files.removed.written
        /\ to_list(outlier_records.list) # <<>> /\ "outliers" \notin faults
              => files.outliers.written
        /\ "log" \notin faults => files.log.written

\* C5: after CleaningStage a raw row is out of Dataset and in DiscardLog exactly
\* when one of its timestamps failed to parse or one of its coordinates is 0, and
\* Dataset holds no row with a missing timestamp or a zero coordinate.
C5_InvalidRowsDiscarded ==
    AfterClean =>
        /\ \A i \in 1..Len(raw_df.rows) :
              LET r == raw_df.rows[i]
              IN  (r.idx \notin DatasetIdx /\ r.idx \in DiscardIdx) <=> RawInvalid(r)
        /\ \A i \in 1..Len(df.rows) :
              /\ df.rows[i].pickup_datetime.kind = "ts"
              /\ df.rows[i].dropoff_datetime.kind = "ts"
              /\ df.rows[i].pickup_latitude # 0 /\ df.rows[i].pickup_longitude # 0
              /\ df.rows[i].dropoff_latitude # 0 /\ df.rows[i].dropoff_longitude # 0

C5_Witness ==
    /\ AfterClean
    /\ Len(raw_df.rows) = 3
    /\ Len(df.rows) = 1
    /\ \E i, j \in 1..Len(removed_records.rows) :
          /\ RawAt(removed_records.rows[i].idx).pickup_datetime.kind = "bad"
          /\ RawAt(removed_records.rows[j].idx).pickup_latitude = 0

\* C6: every row of DiscardLog carries the raw values of the input row in every
\* field, timestamps and passenger_count included.
C6_DiscardLogVerbatim ==
    HasRun("CLEAN") =>
        \A i \in 1..Len(removed_records.rows) :
            removed_records.rows[i] = RawAt(removed_records.rows[i].idx)

\* rows differing in some raw field
RawDistinct(r1, r2) == Cells(r1) # Cells(r2)

\* C7 as first stated: n raw rows, k of them invalid, the valid ones pairwise
\* distinct in their raw values, give n - k rows in Dataset and k in DiscardLog.
C7_CountsForRawDistinctRows ==
    (/\ AfterClean
     /\ \A i, j \in 1..Len(raw_df.rows) :
           (i < j /\ ~RawInvalid(raw_df.rows[i]) /\ ~RawInvalid(raw_df.rows[j]))
              => RawDistinct(raw_df.rows[i], raw_df.rows[j]))
    => /\ Len(df.rows) = Len(raw_df.rows) - RawInvalidCount
       /\ Len(removed_records.rows) = RawInvalidCount

\* rows differing once the timestamps are parsed and passenger_count is filled
\* and clamped
CleanedDistinct(r1, r2) ==
    \/ [Cells(r1) EXCEPT !.passenger_count = 0] # [Cells(r2) EXCEPT !.passenger_count = 0]
    \/ (IF r1.passenger_count = NaN \/ r1.passenger_count < 1 THEN 1 ELSE r1.passenger_count)
         # (IF r2.passenger_count = NaN \/ r2.passenger_count < 1 THEN 1 ELSE r2.passenger_count)

\* C7, amended: n raw rows, k of them invalid, the valid ones pairwise distinct
\* after timestamp parsing and the fill and clamp of passenger_count, give n - k
\* rows in Dataset and k in DiscardLog.
C7_CountsForCleanedDistinctRows ==
    (/\ AfterClean
     /\ \A i, j \in 1..Len(raw_df.rows) :
           (i < j /\ ~RawInvalid(raw_df.rows[i]) /\ ~RawInvalid(raw_df.rows[j]))
              => CleanedDistinct(raw_df.rows[i], raw_df.rows[j]))
    => /\ Len(df.rows) = Len(raw_df.rows) - RawInvalidCount
       /\ Len(removed_records.rows) = RawInvalidCount

C7_Witness ==
    /\ AfterClean
    /\ Len(raw_df.rows) = 3
    /\ RawInvalidCount = 1
    /\ Len(df.rows) = 2
    /\ Len(removed_records.rows) = 1
    /\ \E i \in 1..Len(raw_df.rows) : raw_df.rows[i].pickup_latitude = 0

\* C8: after CleaningStage no two rows of Dataset agree in all fields, of each
\* group of identical valid rows the first in input order is the one kept, and
\* a row dropped only as a duplicate is not in DiscardLog.
C8_DuplicatesDroppedUnlogged ==
    AfterClean =>
        /\ \A i, j \in 1..Len(df.rows) : i < j => Cells(df.rows[i]) # Cells(df.rows[j])
        /\ \A i \in 1..Len(raw_df.rows) :
              ~RawInvalid(raw_df.rows[i]) =>
                 LET first == CHOOSE k \in 1..i :
                                 /\ ~RawInvalid(raw_df.rows[k])
                                 /\ ~CleanedDistinct(raw_df.rows[k], raw_df.rows[i])
                                 /\ \A m \in 1..(k - 1) :
                                       RawInvalid(raw_df.rows[m])
                                       \/ CleanedDistinct(raw_df.rows[m], raw_df.rows[i])
                 IN  /\ raw_df.rows[first].idx \in DatasetIdx
                     /\ first # i => raw_df.rows[i].idx \notin DatasetIdx
                     /\ raw_df.rows[i].idx \notin DiscardIdx
        /\ \A i, j \in 1..Len(df.rows) : i < j => df.rows[i].idx < df.rows[j].idx

C8_Witness ==
    /\ AfterClean
    /\ Len(raw_df.rows) = 3
    /\ RawInvalidCount = 0
    /\ Len(df.rows) = 2
    /\ DatasetIdx = {0, 1}
    /\ removed_records.rows = <<>>

\* C9: normalize_data keeps the rows of Dataset, their number and their order,
\* and leaves DiscardLog as it was.
C9_NormalizeKeepsRows ==
    [][pc = "NORMALIZE" =>
          /\ Len(df'.rows) = Len(df.rows)
          /\ \A i \in 1..Len(df.rows) : df'.rows[i].idx = df.rows[i].idx
          /\ removed_records' = removed_records]_vars

C9_Witness ==
    /\ AfterNormalize
    /\ Len(df.rows) = 2
    /\ Len(removed_records.rows) = 1
    /\ \E i \in 1..Len(df.rows) : df.rows[i].fare_amount = NaN

\* C10: normalize_data applied to its own output changes no field of any row.
C10_NormalizeIdempotent ==
    AfterNormalize => normalize_rows(df.rows, df.columns) = df.rows

C10_Witness ==
    /\ AfterNormalize
    /\ "fare_amount" \in df.columns
    /\ \E i \in 1..Len(df.rows) :
          /\ df.rows[i].pickup_latitude # RawAt(df.rows[i].idx).pickup_latitude
          /\ df.rows[i].pickup_longitude # RawAt(df.rows[i].idx).pickup_longitude
          /\ RawAt(df.rows[i].idx).fare_amount = BadStr
          /\ df.rows[i].fare_amount = NaN

\* the state FeatureDerivationStage has been through
Derived == HasRun("DERIVE")

\* C11: after FeatureDerivationStage trip_speed_kmh is absent in every record
\* whose trip_duration_sec is absent or not above 0, and in every record of a
\* duration above 0 it is present and equal to distance / (duration / 3600).
C11_SpeedOnlyForPositiveDuration ==
    Derived =>
        \A i \in 1..Len(df.rows) :
            LET r == df.rows[i]
                dur == r.trip_duration_sec
            IN  /\ (dur = NaN \/ dur <= 0) => r.trip_speed_kmh = FNaN
                /\ (dur # NaN /\ dur > 0 /\ r.trip_distance_km # NaN) =>
                      /\ r.trip_speed_kmh.den > 0
                      /\ r.trip_speed_kmh = Frac(r.trip_distance_km * 9, dur * 25)

C11_Witness ==
    /\ Derived
    /\ \E i, j, k \in 1..Len(df.rows) :
          /\ df.rows[i].trip_duration_sec = 0 /\ df.rows[i].trip_speed_kmh = FNaN
          /\ df.rows[j].trip_duration_sec = NaN /\ df.rows[j].trip_speed_kmh = FNaN
          /\ df.rows[k].trip_duration_sec = 600
          /\ df.rows[k].trip_speed_kmh.den > 0 /\ df.rows[k].trip_speed_kmh.num > 0

\* C12: within each operator the records stand in pickup order; the first record
\* of an operator has no idle_time_sec, and a later one has its pickup minus the
\* dropoff of the operator's record just before it when that is 0 or more and
\* none otherwise, whether or not that earlier record got an idle time itself;
\* idle_time_sec is never negative.
C12_IdleTimePerOperator ==
    Derived =>
        \A i \in 1..Len(df.rows) :
            LET r == df.rows[i]
                earlier == {j \in 1..(i - 1) : df.rows[j].vendor_id = r.vendor_id}
            IN  /\ \A j \in earlier :
                      df.rows[j].pickup_datetime.sec <= r.pickup_datetime.sec
                /\ earlier = {} => r.idle_time_sec = NaN
                /\ earlier # {} =>
                      LET before == df.rows[CHOOSE j \in earlier : \A k \in earlier : k <= j]
                          gap == r.pickup_datetime.sec - before.dropoff_datetime.sec
                      IN  r.idle_time_sec = IF gap >= 0 THEN gap ELSE NaN
                /\ r.idle_time_sec = NaN \/ r.idle_time_sec >= 0

C12_Witness ==
    /\ Derived
    /\ Len(df.rows) = 3
    /\ \A i \in 1..3 : df.rows[i].vendor_id = 1
    /\ df.rows[1].idle_time_sec = NaN
    /\ df.rows[2].pickup_datetime.sec < df.rows[1].dropoff_datetime.sec
    /\ df.rows[2].idle_time_sec = NaN
    /\ df.rows[3].idle_time_sec = 600
    /\ df.rows[3].pickup_datetime.sec - df.rows[1].dropoff_datetime.sec = 300

\* the state OutlierDetectionStage has been through
Detected == HasRun("DETECT_OUTLIERS")

\* the snapshots in OutlierSet, in the order of the list
OutlierSet == to_list(outlier_records.list)

\* C13: once OutlierDetectionStage has run, a record of Dataset has a snapshot
\* in OutlierSet exactly when its trip_speed_kmh is present and above 120.0; a
\* record without a speed, or of a speed of 120.0, has none.
C13_OutlierIffSpeedAboveThreshold ==
    Detected =>
        \A i \in 1..Len(df.rows) :
            LET r == df.rows[i]
                speed == r.trip_speed_kmh
                snapshot == \E k \in 1..Len(OutlierSet) : OutlierSet[k] = Cells(r)
            IN  snapshot <=> (speed.den > 0 /\ speed.num > 120 * speed.den)

C13_Witness ==
    /\ Detected
    /\ Len(OutlierSet) = 1
    /\ \E i, j, k \in 1..Len(df.rows) :
          /\ df.rows[i].trip_speed_kmh = [num |-> 120, den |-> 1]
          /\ df.rows[j].trip_speed_kmh = FNaN
          /\ df.rows[k].trip_speed_kmh.num > 120 * df.rows[k].trip_speed_kmh.den
          /\ OutlierSet[1] = Cells(df.rows[k])

\* C14: detect_outliers leaves Dataset as it was, row for row and value for
\* value, and leaves DiscardLog as it was, so the cleaned dataset that is saved
\* still holds every record of OutlierSet.
C14_DetectionKeepsDataset ==
    /\ [][pc = "DETECT_OUTLIERS" => df' = df /\ removed_records' = removed_records]_vars
    /\ [](files.clean.written =>
             \A k \in 1..Len(OutlierSet) :
                \E i \in 1..Len(files.clean.content) : files.clean.content[i] = OutlierSet[k])

C14_Witness ==
    /\ files.clean.written
    /\ Len(files.clean.content) = 2
    /\ Len(OutlierSet) = 1
    /\ Len(removed_records.rows) = 1

\* the list after add has been called with each of the trips in turn
RECURSIVE AddAll(_, _)
AddAll(list, trips) ==
    IF trips = <<>> THEN list ELSE AddAll(add(list, Head(trips)), Tail(trips))

\* C15: to_list gives the records added, in the order of the add calls, equal
\* ones as often as they were added; OutlierSet is the subsequence of Dataset of
\* the records of a speed above 120.0, in Dataset order and each as often as it
\* stands in Dataset, and the count written to the RunLog is its length.
C15_OutlierSetIsOrderedSubsequence ==
    /\ pc = "SAVE" =>
          \A trips \in SeqsUpTo({Cells(df.rows[i]) : i \in 1..Len(df.rows)}, Len(df.rows)) :
              to_list(AddAll(EmptyList, trips)) = trips
    /\ Detected =>
          /\ OutlierSet =
                FilterSeq([i \in 1..Len(df.rows) |-> Cells(df.rows[i])],
                          [i \in 1..Len(df.rows) |->
                              /\ df.rows[i].trip_speed_kmh.den > 0
                              /\ df.rows[i].trip_speed_kmh.num > 120 * df.rows[i].trip_speed_kmh.den])
          /\ \E k \in 1..Len(cleaning_log) :
                /\ cleaning_log[k].msg = "Detected speed outliers (> km/h)"
                /\ cleaning_log[k].n = Len(OutlierSet)

C15_Witness ==
    /\ pc = "SAVE"
    /\ Len(df.rows) = 3
    /\ Len(OutlierSet) = 2
    /\ OutlierSet[1] = OutlierSet[2]
    /\ OutlierSet[1] = Cells(df.rows[1])
    /\ df.rows[1].idx # df.rows[2].idx
    /\ df.rows[3].trip_speed_kmh = [num |-> 120, den |-> 1]
    /\ LastEntry.n = 2

\* C16: in every run that has been through SUMMARIZE the summary reports a
\* retention percentage, and it is exactly cleaned rows / original rows x 100
\* (the reported number is held in hundredths of a percent).
C16_RetentionExact ==
    HasRun("SUMMARIZE") =>
        \E k \in 1..Len(cleaning_log) :
            /\ cleaning_log[k].msg = "Data retention: %"
            /\ cleaning_log[k].n * original_shape[1] = Len(df.rows) * 10000

\* insert_to_database has committed in this run
Committed ==
    \E k \in 1..Len(cleaning_log) : cleaning_log[k].msg = "Inserted trip records into database"

\* the rows of the Vendors table named 'Vendor v'
VendorRows(v) == {i \in 1..Len(db.Vendors) : db.Vendors[i].vendor_name = vendor_name(v)}

\* C17: once insert_to_database has committed, in a first run or in a run
\* against the store an earlier run left, the Vendors table holds exactly one
\* row named 'Vendor v' for every operator v of the Dataset.
C17_OneRowPerVendorName ==
    Committed =>
        \A i \in 1..Len(df.rows) : Cardinality(VendorRows(df.rows[i].vendor_id)) = 1

\* C18: insert_to_database never changes or removes a row the Trips table holds;
\* when it commits over a Dataset of N rows the table has grown by exactly N
\* rows, so that a second committed run over the same Dataset leaves 2N rows.
C18_TripsInsertOnly ==
    [][pc = "PERSIST_TO_STORE" =>
          /\ Len(db'.Trips) >= Len(db.Trips)
          /\ \A i \in 1..Len(db.Trips) : db'.Trips[i] = db.Trips[i]
          /\ cleaning_log'[Len(cleaning_log')].msg = "Inserted trip records into database" =>
                /\ Len(db'.Trips) = Len(db.Trips) + Len(df.rows)
                /\ Len(db.Trips) = Len(df.rows) => Len(db'.Trips) = 2 * Len(df.rows)]_vars

C18_Witness ==
    /\ Committed
    /\ Len(df.rows) = 2
    /\ Len(db.Trips) = 4
    /\ db.Trips[1].trip = db.Trips[3].trip
    /\ db.Trips[2].trip = db.Trips[4].trip
    /\ db.Trips[1].trip_id # db.Trips[3].trip_id

\* the state FeatureDerivationStage leaves
AfterDerive == pc = "DETECT_OUTLIERS"

\* the places of the Dataset: the pickup and the dropoff of every record
Places ==
    {<<df.rows[i].pickup_latitude, df.rows[i].pickup_longitude>> : i \in 1..Len(df.rows)}
    \cup {<<df.rows[i].dropoff_latitude, df.rows[i].dropoff_longitude>> : i \in 1..Len(df.rows)}

\* C19: the distance from A to B is the distance from B to A, and the distance
\* from A to A is 0, for all places A and B of the Dataset; the distance a
\* record got is the distance from its dropoff back to its pickup.
C19_DistanceSymmetricZeroOnSame ==
    AfterDerive =>
        /\ \A A \in Places, B \in Places :
              /\ calculate_trip_distance(A[1], A[2], B[1], B[2])
                    = calculate_trip_distance(B[1], B[2], A[1], A[2])
              /\ calculate_trip_distance(A[1], A[2], A[1], A[2]) = 0
        /\ \A i \in 1..Len(df.rows) :
              df.rows[i].trip_distance_km =
                 calculate_trip_distance(df.rows[i].dropoff_latitude, df.rows[i].dropoff_longitude,
                                         df.rows[i].pickup_latitude, df.rows[i].pickup_longitude)

C19_Witness ==
    /\ AfterDerive
    /\ Cardinality(Places) >= 4
    /\ \E i, j \in 1..Len(df.rows) :
          /\ df.rows[i].pickup_latitude # df.rows[i].dropoff_latitude
          /\ df.rows[i].pickup_longitude # df.rows[i].dropoff_longitude
          /\ df.rows[i].trip_distance_km > 0
          /\ df.rows[j].pickup_latitude = df.rows[j].dropoff_latitude
          /\ df.rows[j].pickup_longitude = df.rows[j].dropoff_longitude
          /\ df.rows[j].trip_distance_km = 0

\* C20: from CleaningStage on, every record of Dataset has a passenger_count of
\* 1 or more: 1 where the raw value was missing or below 1, the raw value
\* otherwise; the same holds of the records written to the cleaned dataset file.
C20_PassengerCountAtLeastOne ==
    HasRun("CLEAN") =>
        /\ \A i \in 1..Len(df.rows) :
              LET count == df.rows[i].passenger_count
                  raw == RawAt(df.rows[i].idx).passenger_count
              IN  /\ count # NaN /\ count >= 1
                  /\ raw = NaN => count = 1
                  /\ (raw # NaN /\ raw < 1) => count = 1
                  /\ (raw # NaN /\ raw >= 1) => count = raw
        /\ \A i \in 1..Len(files.clean.content) :
              /\ files.clean.content[i].passenger_count # NaN
              /\ files.clean.content[i].passenger_count >= 1

C20_Witness ==
    /\ HasRun("SUMMARIZE")
    /\ files.clean.written
    /\ \E i, j, k \in 1..Len(df.rows) :
          /\ RawAt(df.rows[i].idx).passenger_count = NaN /\ df.rows[i].passenger_count = 1
          /\ RawAt(df.rows[j].idx).passenger_count = 0 /\ df.rows[j].passenger_count = 1
          /\ RawAt(df.rows[k].idx).passenger_count >= 2
          /\ df.rows[k].passenger_count = RawAt(df.rows[k].idx).passenger_count

\* C21: after FeatureDerivationStage trip_efficiency is absent where
\* trip_speed_kmh is absent, and is the smaller of trip_speed_kmh / 120.0 and 1.0
\* elsewhere; it is never above 1.0.
C21_EfficiencyIsClippedRatio ==
    Derived =>
        \A i \in 1..Len(df.rows) :
            LET speed == df.rows[i].trip_speed_kmh
                eff == df.rows[i].trip_efficiency
            IN  /\ speed = FNaN => eff = FNaN
                /\ speed # FNaN =>
                      /\ eff.den > 0
                      /\ eff.num <= eff.den
                      /\ speed.num >= 120 * speed.den => eff = [num |-> 1, den |-> 1]
                      /\ speed.num < 120 * speed.den =>
                            eff.num * (120 * speed.den) = speed.num * eff.den

C21_Witness ==
    /\ Derived
    /\ \E i, j, k \in 1..Len(df.rows) :
          /\ df.rows[i].trip_speed_kmh = FNaN /\ df.rows[i].trip_efficiency = FNaN
          /\ df.rows[j].trip_speed_kmh.num > 120 * df.rows[j].trip_speed_kmh.den
          /\ df.rows[j].trip_efficiency = [num |-> 1, den |-> 1]
          /\ df.rows[k].trip_speed_kmh.den > 0
          /\ df.rows[k].trip_efficiency.den > 0
          /\ df.rows[k].trip_efficiency.num < df.rows[k].trip_efficiency.den

\* rows in the order of (operator, pickup time)
InVendorPickupOrder(rows) ==
    \A i, j \in 1..Len(rows) :
        i < j =>
           \/ rows[i].vendor_id < rows[j].vendor_id
           \/ /\ rows[i].vendor_id = rows[j].vendor_id
              /\ rows[i].pickup_datetime.sec <= rows[j].pickup_datetime.sec

\* C23: FeatureDerivationStage leaves the Dataset in the order of (operator,
\* pickup time), records equal in both standing as they stood in the input; no
\* later step changes the order of the rows, and the cleaned dataset file and
\* OutlierSet are in that order.
C23_SortedOnceAndStable ==
    /\ [](Derived =>
             /\ InVendorPickupOrder(df.rows)
             /\ \A i, j \in 1..Len(df.rows) :
                   (/\ i < j
                    /\ df.rows[i].vendor_id = df.rows[j].vendor_id
                    /\ df.rows[i].pickup_datetime = df.rows[j].pickup_datetime)
                   => df.rows[i].idx < df.rows[j].idx
             /\ InVendorPickupOrder(OutlierSet)
             /\ files.clean.written =>
                   files.clean.content = [i \in 1..Len(df.rows) |-> Cells(df.rows[i])])
    /\ [][Derived => [i \in 1..Len(df'.rows) |-> df'.rows[i].idx]
                       = [i \in 1..Len(df.rows) |-> df.rows[i].idx]]_vars

C23_Witness ==
    /\ files.clean.written
    /\ Len(df.rows) = 3
    /\ df.rows[1].idx > df.rows[3].idx
    /\ df.rows[1].vendor_id = df.rows[2].vendor_id
    /\ df.rows[1].pickup_datetime = df.rows[2].pickup_datetime
    /\ Len(OutlierSet) = 2

\* C24: after FeatureDerivationStage trip_duration_sec is absent or 0 or more:
\* absent where the dropoff is before the pickup, dropoff minus pickup
\* elsewhere, so 0 where the two are the same instant.
C24_DurationAbsentOrNonNegative ==
    Derived =>
        \A i \in 1..Len(df.rows) :
            LET r == df.rows[i]
                pickup == r.pickup_datetime.sec
                dropoff == r.dropoff_datetime.sec
            IN  /\ r.trip_duration_sec = NaN \/ r.trip_duration_sec >= 0
                /\ dropoff < pickup => r.trip_duration_sec = NaN
                /\ dropoff = pickup => r.trip_duration_sec = 0
                /\ dropoff > pickup => r.trip_duration_sec = dropoff - pickup

C24_Witness ==
    /\ Derived
    /\ \E i, j \in 1..Len(df.rows) :
          /\ df.rows[i].dropoff_datetime.sec < df.rows[i].pickup_datetime.sec
          /\ df.rows[i].trip_duration_sec = NaN
          /\ df.rows[j].dropoff_datetime = df.rows[j].pickup_datetime
          /\ df.rows[j].trip_duration_sec = 0

\* C25: FeatureDerivationStage produces fare_per_km exactly when the Dataset has
\* a fare column; where it does, a record of distance 0 has no fare_per_km (and
\* none is infinite), and any other record has fare_amount / trip_distance_km.
C25_FarePerKm ==
    (Derived /\ "trip_efficiency" \in df.columns) =>
        /\ "fare_per_km" \in df.columns <=> "fare_amount" \in df.columns
        /\ "fare_per_km" \in df.columns =>
              \A i \in 1..Len(df.rows) :
                  LET r == df.rows[i]
                  IN  /\ r.fare_per_km # FInf /\ r.fare_per_km # FNegInf
                      /\ r.trip_distance_km = 0 => r.fare_per_km = FNaN
                      /\ (r.trip_distance_km # 0 /\ r.fare_amount # NaN) =>
                            /\ r.fare_per_km.den > 0
                            /\ r.fare_per_km = Frac(r.fare_amount * Scale, r.trip_distance_km)
                      /\ r.fare_amount = NaN => r.fare_per_km = FNaN

C25_Witness ==
    /\ Derived
    /\ "fare_per_km" \in df.columns
    /\ \E i, j \in 1..Len(df.rows) :
          /\ df.rows[i].trip_distance_km = 0
          /\ df.rows[i].fare_amount > 0
          /\ df.rows[i].fare_per_km = FNaN
          /\ df.rows[j].trip_distance_km > 0
          /\ df.rows[j].fare_per_km.num > 0 /\ df.rows[j].fare_per_km.den > 0

\* C26: every step leaves the RunLog an extension of what it was, the entries it
\* held unchanged and in place, and every stage that runs appends at least one
\* entry.
C26_RunLogAppendOnly ==
    [][/\ Len(cleaning_log') >= Len(cleaning_log)
       /\ \A i \in 1..Len(cleaning_log) : cleaning_log'[i] = cleaning_log[i]
       /\ ran' # ran => Len(cleaning_log') > Len(cleaning_log)]_vars

C26_Witness ==
    /\ pc = "SUCCESS"
    /\ Len(ran) = 8
    /\ Len(cleaning_log) >= 2 * Len(ran)
    /\ cleaning_log[1].msg = "Loading raw data from zip file..."
    /\ LastEntry.msg = "Speed outliers detected:"

\* the entries appended once the processing log has been written
EntriesAfterLogFile ==
    {"Saved processing log to: path", "Inserting cleaned data into database...",
     "Inserted trip records into database", "Error inserting to database: no store",
     "Error inserting to database: constraint failed", "Processing Summary:",
     "Original dataset: rows, columns", "Cleaned dataset: rows, columns",
     "Data retention: %", "Speed outliers detected:"}

\* C27: the processing-log file holds, in order, exactly the RunLog entries
\* appended before it was written: the RunLog goes on with the entry reporting
\* the write, and neither that entry nor the entries of the database insertion
\* and of the summary are in the file.
C27_LogFileIsRunLogAtWrite ==
    files.log.written =>
        LET content == files.log.content
        IN  /\ Len(content) < Len(cleaning_log)
            /\ \A i \in 1..Len(content) : content[i] = cleaning_log[i]
            /\ cleaning_log[Len(content) + 1].msg = "Saved processing log to: path"
            /\ \A i \in 1..Len(content) : content[i].msg \notin EntriesAfterLogFile
            /\ \A i \in (Len(content) + 1)..Len(cleaning_log) :
                  cleaning_log[i].msg \in EntriesAfterLogFile

C27_Witness ==
    /\ pc = "SUCCESS"
    /\ files.log.written
    /\ files.log.content[Len(files.log.content)].msg = "Saved speed outliers to: path"
    /\ Committed
    /\ \E k \in 1..Len(cleaning_log) :
          cleaning_log[k].msg = "Data retention: %" /\ cleaning_log[k].n = 6667

\* C28: every record of OutlierSet has a trip_efficiency of exactly 1.0, and no
\* record of Dataset whose trip_efficiency is below 1.0 or absent has a
\* snapshot in OutlierSet.
C28_OutliersHaveFullEfficiency ==
    Detected =>
        /\ \A k \in 1..Len(OutlierSet) : OutlierSet[k].trip_efficiency = [num |-> 1, den |-> 1]
        /\ \A i \in 1..Len(df.rows) :
              LET eff == df.rows[i].trip_efficiency
              IN  (eff = FNaN \/ eff.num < eff.den) =>
                     \A k \in 1..Len(OutlierSet) : OutlierSet[k] # Cells(df.rows[i])

C28_Witness ==
    /\ Detected
    /\ Len(OutlierSet) = 1
    /\ OutlierSet[1].trip_efficiency = [num |-> 1, den |-> 1]
    /\ \E i, j \in 1..Len(df.rows) :
          /\ df.rows[i].trip_efficiency = FNaN
          /\ df.rows[j].trip_efficiency.num < df.rows[j].trip_efficiency.den

\* C29: an insert_to_database that fails, on a record the store refuses or on a
\* store out of reach, commits nothing: the Vendors and Trips tables are as
\* they were before the call, the error is logged, and the run goes on.
C29_InsertAllOrNothing ==
    [][(/\ pc = "PERSIST_TO_STORE"
        /\ cleaning_log'[Len(cleaning_log')].msg # "Inserted trip records into database")
       => /\ db' = db
          /\ cleaning_log'[Len(cleaning_log')].msg
                \in {"Error inserting to database: no store",
                     "Error inserting to database: constraint failed"}
          /\ pc' = "SUMMARIZE"
          /\ exc' = "none"]_vars

C29_Witness ==
    /\ LastRan = "PERSIST_TO_STORE"
    /\ LastEntry.msg = "Error inserting to database: constraint failed"
    /\ Len(df.rows) = 3
    /\ df.rows[1].trip_duration_sec # NaN
    /\ df.rows[3].trip_duration_sec = NaN
    /\ db = EmptyDb

\* the entry of CleaningStage that reports the rows removed
RemovedEntries ==
    {k \in 1..Len(cleaning_log) : cleaning_log[k].msg = "Removed invalid/duplicate records"}

\* C30: the count CleaningStage logs is raw rows minus cleaned rows, which is
\* the size of DiscardLog plus the number of valid rows dropped as duplicates;
\* an invalid row standing m times in the raw input stands m times in
\* DiscardLog.
C30_RemovedCountAndDiscardMultiplicity ==
    AfterClean =>
        LET raw == raw_df.rows
            validCount == Len(raw) - RawInvalidCount
            duplicatesDropped == validCount - Len(df.rows)
        IN  /\ Cardinality(RemovedEntries) = 1
            /\ \A k \in RemovedEntries :
                  /\ cleaning_log[k].n = Len(raw) - Len(df.rows)
                  /\ cleaning_log[k].n = Len(removed_records.rows) + duplicatesDropped
            /\ duplicatesDropped >= 0
            /\ \A i \in 1..Len(raw) :
                  RawInvalid(raw[i]) =>
                     Cardinality({j \in 1..Len(removed_records.rows) :
                                     Cells(RawAt(removed_records.rows[j].idx)) = Cells(raw[i])})
                       = Cardinality({k \in 1..Len(raw) : Cells(raw[k]) = Cells(raw[i])})

C30_Witness ==
    /\ AfterClean
    /\ Len(raw_df.rows) = 3
    /\ Len(removed_records.rows) = 2
    /\ Cells(RawAt(removed_records.rows[1].idx)) = Cells(RawAt(removed_records.rows[2].idx))
    /\ Len(df.rows) = 1
    /\ LastEntry.n = 2

\* C22: update_vendor called with an id no vendor has raises ValueError and
\* writes nothing; called with the id of a vendor it sets that vendor's name,
\* returns the vendor with the new name, and leaves every other vendor as it was.
C22_UpdateVendor ==
    api.op = "update_vendor" =>
        LET known == \E i \in 1..Len(api.before) : api.before[i].vendor_id = api.vendor_id
        IN  /\ ~known => (api.exc = "ValueError" /\ db.Vendors = api.before)
            /\ known =>
                  /\ api.exc = "none"
                  /\ api.result = [vendor_id |-> api.vendor_id, vendor_name |-> api.vendor_name]
                  /\ Len(db.Vendors) = Len(api.before)
                  /\ \A i \in 1..Len(api.before) :
                        db.Vendors[i] = IF api.before[i].vendor_id = api.vendor_id
                                        THEN [vendor_id |-> api.vendor_id,
                                              vendor_name |-> api.vendor_name]
                                        ELSE api.before[i]

====
